---- MODULE Spec2Model ----
(***************************************************************************)
(* youtube-splitter: the /split-video request pipeline of server.js.       *)
(*                                                                         *)
(* server.js holds two variants of the server, one after the other:        *)
(*   - the youtube-dl variant  (server.js lines   1-224),                  *)
(*   - the RapidAPI variant    (server.js lines 225-696).                  *)
(* A deployment runs one of them; the variable `variant` says which.       *)
(*                                                                         *)
(* JavaScript values are modelled as follows.                              *)
(*   string      a sequence of one-character strings, <<"3","0">> = "30"   *)
(*   number      <<n>> for the integer n, <<>> for NaN                     *)
(*   raw entry   [type |-> "string", str |-> s] or                         *)
(*               [type |-> "number", num |-> n]                            *)
(* The alphabet of the modelled strings has digits, letters, ':', '-',     *)
(* ' ', '&', '=', '?', '/', '.', '_'; it has no whitespace-only strings,   *)
(* decimal points inside numerals, exponents or "Infinity".                *)
(***************************************************************************)
EXTENDS Integers, Sequences, FiniteSets, TLC

VARIABLES
    variant,    \* which server of server.js is deployed
    fs,         \* the downloads directory: file name -> [size, by]
    req,        \* the /split-video requests: id -> handler state
    ops,        \* external operations in flight (HTTP calls, streams, ffmpeg)
    nraw,       \* normalizer harness: the raw timestamp list
    nout,       \* normalizer harness: the result of parsing nraw
    dl,         \* the GET /download/:filename requests: id -> handler state
    zip,        \* the GET /download-zip requests: id -> handler state
    alive,      \* the server process is running
    ntitles,    \* naming harness: the titles of two requests
    nfiles      \* naming harness: the file names derived from ntitles

vars == <<variant, fs, req, ops, nraw, nout, dl, zip, alive, ntitles, nfiles>>

(***************************************************************************)
(* Strings                                                                 *)
(***************************************************************************)
Digits == <<"0", "1", "2", "3", "4", "5", "6", "7", "8", "9">>

UpperCase == <<"A", "B", "C", "D", "E", "F", "G", "H", "I", "J", "K", "L", "M",
               "N", "O", "P", "Q", "R", "S", "T", "U", "V", "W", "X", "Y", "Z">>

LowerCase == <<"a", "b", "c", "d", "e", "f", "g", "h", "i", "j", "k", "l", "m",
               "n", "o", "p", "q", "r", "s", "t", "u", "v", "w", "x", "y", "z">>

Range(s) == {s[i] : i \in DOMAIN s}

IsDigit(c) == c \in Range(Digits)

DigitVal(c) == (CHOOSE i \in DOMAIN Digits : Digits[i] = c) - 1

\* String.prototype.toLowerCase on one character
ToLowerCase(c) ==
    IF c \in Range(UpperCase)
    THEN LowerCase[CHOOSE i \in DOMAIN UpperCase : UpperCase[i] = c]
    ELSE c

\* s.startsWith(sep) at position i
MatchAt(s, sep, i) ==
    /\ i + Len(sep) - 1 <= Len(s)
    /\ \A k \in 1..Len(sep) : s[i + k - 1] = sep[k]

\* String.prototype.split(sep) for a non-empty separator: the pieces of s
\* between the occurrences of sep, scanned left to right.
RECURSIVE SplitFrom(_, _, _, _)
SplitFrom(s, sep, i, cur) ==
    IF i > Len(s) THEN <<cur>>
    ELSE IF MatchAt(s, sep, i)
         THEN <<cur>> \o SplitFrom(s, sep, i + Len(sep), <<>>)
         ELSE SplitFrom(s, sep, i + 1, Append(cur, s[i]))

Split(s, sep) == SplitFrom(s, sep, 1, <<>>)

\* String.prototype.includes
Includes(s, sep) == \E i \in 1..Len(s) : MatchAt(s, sep, i)

\* decimal value of a string of digits
RECURSIVE DigitsValue(_)
DigitsValue(s) ==
    IF s = <<>> THEN 0
    ELSE 10 * DigitsValue(SubSeq(s, 1, Len(s) - 1)) + DigitVal(s[Len(s)])

\* `${n}` for a natural number n
RECURSIVE NatToString(_)
NatToString(n) ==
    IF n < 10 THEN <<Digits[n + 1]>>
    ELSE NatToString(n \div 10) \o <<Digits[(n % 10) + 1]>>

(***************************************************************************)
(* Numbers                                                                 *)
(***************************************************************************)
NaN == <<>>

Num(n) == <<n>>

IsNaN(x) == x = NaN

\* a * k for a number a and an integer constant k
Times(a, k) == IF IsNaN(a) THEN NaN ELSE Num(a[1] * k)

\* a + b
Plus(a, b) == IF IsNaN(a) \/ IsNaN(b) THEN NaN ELSE Num(a[1] + b[1])

\* Number(s) for a string s: "" is 0, an optionally signed run of digits is
\* its decimal value, anything else is NaN.
StringToNumber(s) ==
    IF s = <<>> THEN Num(0)
    ELSE IF \A i \in DOMAIN s : IsDigit(s[i]) THEN Num(DigitsValue(s))
    ELSE IF /\ Len(s) >= 2
            /\ s[1] \in {"-", "+"}
            /\ \A i \in 2..Len(s) : IsDigit(s[i])
         THEN Num((IF s[1] = "-" THEN -1 ELSE 1) * DigitsValue(Tail(s)))
    ELSE NaN

\* Number(ts) for a raw entry
ToNumber(ts) ==
    IF ts.type = "string" THEN StringToNumber(ts.str) ELSE Num(ts.num)

(***************************************************************************)
(* Timestamp parsing, server.js 385-392 (and 63-73)                        *)
(***************************************************************************)
\* ParseTimestamp without the hh:mm:ss branch
ParseTimestampNoHours(ts) ==
    IF ts.type = "string" /\ Includes(ts.str, <<":">>)
    THEN LET pieces == Split(ts.str, <<":">>)
             parts  == [i \in DOMAIN pieces |-> StringToNumber(pieces[i])]
         IN  IF Len(parts) = 2
             THEN Plus(Times(parts[1], 60), parts[2])
             ELSE ToNumber(ts)
    ELSE ToNumber(ts)

\* the callback of rawTimestamps.map
ParseTimestamp(ts) ==
    IF ts.type = "string" /\ Includes(ts.str, <<":">>)
    THEN LET pieces == Split(ts.str, <<":">>)
             parts  == [i \in DOMAIN pieces |-> StringToNumber(pieces[i])]
         IN  IF Len(parts) = 2
             THEN Plus(Times(parts[1], 60), parts[2])
             ELSE IF Len(parts) = 3
                  THEN Plus(Plus(Times(parts[1], 3600), Times(parts[2], 60)),
                            parts[3])
                  ELSE ToNumber(ts)
    ELSE ToNumber(ts)

\* .filter(ts => !isNaN(ts))
FilterNumbers(xs) == SelectSeq(xs, LAMBDA x : ~IsNaN(x))

\* insertion of x into an ascending list, after the entries equal to it
RECURSIVE InsertSorted(_, _)
InsertSorted(x, s) ==
    IF s = <<>> THEN <<x>>
    ELSE IF x[1] - s[1][1] < 0
         THEN <<x>> \o s
         ELSE <<s[1]>> \o InsertSorted(x, Tail(s))

\* .sort((a, b) => a - b): a stable ascending sort
RECURSIVE SortAscending(_)
SortAscending(xs) ==
    IF xs = <<>> THEN <<>>
    ELSE InsertSorted(xs[Len(xs)], SortAscending(SubSeq(xs, 1, Len(xs) - 1)))

\* the parsed list, with a lone 0 put in when nothing parsed
ParsedTimestampsOrZero(raw) ==
    LET parsed == SortAscending(
                      FilterNumbers([i \in DOMAIN raw |-> ParseTimestamp(raw[i])]))
    IN  IF parsed = <<>> THEN <<Num(0)>> ELSE parsed

\* rawTimestamps.map(...).filter(...).sort(...)
ParsedTimestamps(raw) ==
    SortAscending(FilterNumbers([i \in DOMAIN raw |-> ParseTimestamp(raw[i])]))

\* if (parsedTimestamps[0] !== 0) parsedTimestamps.unshift(0)
PrependZero(parsed) ==
    IF parsed[1] # Num(0) THEN <<Num(0)>> \o parsed ELSE parsed

\* the cut plan as a list of integers
CutPlan(raw) ==
    LET plan == PrependZero(ParsedTimestamps(raw))
    IN  [i \in DOMAIN plan |-> plan[i][1]]

(***************************************************************************)
(* Normalizer harness: the parsing of server.js 385-406 applied to every   *)
(* raw list of at most MaxLen entries drawn from RawPool.                  *)
(***************************************************************************)
MaxLen == 3

Str(s) == [type |-> "string", str |-> s]

Number(n) == [type |-> "number", num |-> n]

RawPool ==
    { Str(<<"3", "0">>),                              \* "30"
      Str(<<"1", ":", "3", "0">>),                    \* "1:30"
      Str(<<"0", ":", "1", "0">>),                    \* "0:10"
      Str(<<"1", ":", "0", "0", ":", "0", "0">>),     \* "1:00:00"
      Str(<<"a", "b", "c">>),                         \* "abc"
      Str(<<"0", ":", "0", "0">>),                    \* "0:00"
      Str(<<"a", ":", "3", "0">>),                    \* "a:30"
      Str(<<"1", ":", "2", ":", "3", ":", "4">>),     \* "1:2:3:4"
      Str(<<"-", "5">>),                              \* "-5"
      Str(<<>>),                                      \* ""
      Number(0),
      Number(30),
      Number(90) }

RECURSIVE ListsUpTo(_, _)
ListsUpTo(pool, n) ==
    IF n = 0 THEN {<<>>}
    ELSE LET shorter == ListsUpTo(pool, n - 1)
         IN  shorter \cup {Append(l, x) : l \in shorter, x \in pool}

RawLists == ListsUpTo(RawPool, MaxLen)

\* what the handler does with the raw list: the empty-plan answer of
\* server.js 396-402, or the cut plan of 404-406
NormalizeResult(raw) ==
    IF Len(ParsedTimestamps(raw)) = 0
    THEN [state |-> "rejected", status |-> 400]
    ELSE [state |-> "plan", plan |-> CutPlan(raw)]

Idle == [state |-> "new"]

Normalize ==
    /\ nout = Idle
    /\ nout' = NormalizeResult(nraw)
    /\ UNCHANGED <<variant, fs, req, ops, nraw, dl, zip, alive, ntitles, nfiles>>

(***************************************************************************)
(* The server: requests, the downloads directory, external operations      *)
(***************************************************************************)
Reqs == {"r1", "r2"}

\* req.body.youtubeUrl: absent, a string, or a JSON value that is no string
NoUrl == [type |-> "undefined", str |-> <<>>]

UrlString(s) == [type |-> "string", str |-> s]

UrlNumber == [type |-> "number", str |-> <<>>]

UrlPool ==
    { NoUrl,
      UrlString(<<"w", "?", "v", "=", "a", "B", "1">>),            \* id aB1
      UrlString(<<"w", "?", "v", "=", "a", "B", "1", "&", "t">>),  \* id aB1
      UrlString(<<"y", ".", "b", "e", "/", "a", "B", "1">>),       \* no v=
      UrlNumber }

\* req.body.timestamps: absent, or an array of raw entries
NoTimestamps == [isArray |-> FALSE, list |-> <<>>]

Timestamps(l) == [isArray |-> TRUE, list |-> l]

TimestampsPool ==
    { NoTimestamps,
      Timestamps(<<>>),
      Timestamps(<<Str(<<"a", "b", "c">>)>>),
      Timestamps(<<Number(0)>>),
      Timestamps(<<Str(<<"3", "0">>)>>),
      Timestamps(<<Str(<<"1", ":", "3", "0">>), Str(<<"0", ":", "1", "0">>)>>) }

\* the titles the RapidAPI service reports; <<>> is "no title"
Titles == { <<"A", "b", " ", "1">> }

\* response.data of the RapidAPI /dl call
ApiData ==
    { [status |-> "ok",   title |-> t,    link |-> TRUE]  : t \in Titles } \cup
    { [status |-> "ok",   title |-> <<>>, link |-> TRUE],
      [status |-> "fail", title |-> <<>>, link |-> FALSE] }

\* the outcome of axios.request: a rejection, or a response with data
Rejected == [ok |-> FALSE]

Resolved(d) == [ok |-> TRUE, data |-> d]

ApiOutcomes == {Rejected} \cup {Resolved(d) : d \in ApiData}

\* JSON values of a response body
JBool(b) == [t |-> "boolean", v |-> b]

JStr(s) == [t |-> "string", v |-> s]

JArr(a) == [t |-> "array", v |-> a]

\* !youtubeUrl
Falsy(url) == url.type = "undefined" \/ (url.type = "string" /\ url.str = <<>>)

\* youtubeUrl.split('v=')[1]?.split('&')[0]; <<>> stands for both undefined
\* and the empty string, which the code treats alike (!videoId)
VideoId(url) ==
    LET pieces == Split(url.str, <<"v", "=">>)
    IN  IF Len(pieces) >= 2 THEN Split(pieces[2], <<"&">>)[1] ELSE <<>>

\* title.replace(/[^a-z0-9]/gi, '_').toLowerCase()
Sanitize(title) ==
    [i \in DOMAIN title |->
        ToLowerCase(IF \/ IsDigit(title[i])
                       \/ title[i] \in Range(UpperCase)
                       \/ title[i] \in Range(LowerCase)
                    THEN title[i] ELSE "_")]

FallbackTitleNone(videoId) == <<>>

\* `youtube_video_${videoId}`
FallbackTitle(videoId) ==
    <<"y", "o", "u", "t", "u", "b", "e", "_", "v", "i", "d", "e", "o", "_">>
        \o videoId

\* `${videoTitle}.mp3`, the name of the source file in downloadsDir
VideoFile(videoTitle) == videoTitle \o <<".", "m", "p", "3">>

SegmentFileFromZero(videoTitle, i) ==
    videoTitle \o <<"_", "s", "e", "g", "m", "e", "n", "t", "_">>
        \o NatToString(i) \o <<".", "m", "p", "3">>

\* `${videoTitle}_segment_${i + 1}.mp3` for the 0-based index i
SegmentFile(videoTitle, i) ==
    videoTitle \o <<"_", "s", "e", "g", "m", "e", "n", "t", "_">>
        \o NatToString(i + 1) \o <<".", "m", "p", "3">>

\* the downloads directory
Exists(dir, name) == name \in DOMAIN dir

\* a file (re)written at a path
WriteFile(dir, name, size, r) ==
    [n \in DOMAIN dir \cup {name} |->
        IF n = name THEN [size |-> size, by |-> r] ELSE dir[n]]

\* fs.unlinkSync of an existing file
Unlink(dir, name) == [n \in DOMAIN dir \ {name} |-> dir[n]]

\* if (fs.existsSync(p)) fs.unlinkSync(p)
UnlinkIfExists(dir, name) == IF Exists(dir, name) THEN Unlink(dir, name) ELSE dir

\* the GET /download/:filename and GET /download-zip requests
Downloads == {"d1", "d2"}

Zips == {"z1"}

NewDownload == [pc |-> "idle", name |-> <<>>, resps |-> <<>>]

NewZip == [pc |-> "idle", files |-> <<>>, fileList |-> <<>>, added |-> <<>>,
           resps |-> <<>>]

NewRequest ==
    [pc |-> "idle", url |-> NoUrl, raw |-> NoTimestamps,
     videoTitle |-> <<>>, plan |-> <<>>, dlTitle |-> <<>>, videoPath |-> <<>>,
     i |-> 0, segments |-> <<>>, calls |-> <<>>, resps |-> <<>>]

\* res.status(status).json(body), after which the handler returns
Respond(rq, status, body) ==
    [rq EXCEPT !.pc = "done",
               !.resps = Append(@, [status |-> status, body |-> body])]

ErrorBody(message) == [error |-> JBool(TRUE), message |-> JStr(message)]

\* an external operation of request r that has been started and has not yet
\* signalled completion; seg is the interval index of an ffmpeg run
Op(r, kind, seg) == [r |-> r, kind |-> kind, seg |-> seg]

\* the ffmpeg command with the end time passed as the duration
FfmpegCommandEndAsDuration(rq, i) ==
    [input    |-> rq.videoPath,
     start    |-> rq.plan[i + 1],
     duration |-> IF i + 1 < Len(rq.plan) THEN <<rq.plan[i + 2]>> ELSE <<>>,
     output   |-> SegmentFile(rq.dlTitle, i)]

\* the ffmpeg command of server.js 489-512 for the 0-based interval i
FfmpegCommand(rq, i) ==
    [input    |-> rq.videoPath,
     start    |-> rq.plan[i + 1],
     duration |-> IF i + 1 < Len(rq.plan)
                  THEN <<rq.plan[i + 2] - rq.plan[i + 1]>>
                  ELSE <<>>,
     output   |-> SegmentFile(rq.dlTitle, i)]

\* a loop that does not await: every remaining interval is started at once
StartedAtAllRemaining(rq, i) == i..(Len(rq.plan) - 1)

\* the intervals whose ffmpeg run is started when the loop of server.js
\* 481-535 is at index i: the loop awaits each run before the next
StartedAt(rq, i) == {i}

\* the loop body up to its await: the commands are built and started
StartSegments(rq, i) ==
    [rq EXCEPT !.pc = "ffmpeg",
               !.i = i,
               !.calls = @ \o [k \in 1..Cardinality(StartedAt(rq, i)) |->
                                  FfmpegCommand(rq, i + k - 1)]]

\* the catch of server.js 551-569: the file named after the video id is
\* removed and the request answered 500
DownloadCatchFiles(rq, dir) ==
    UnlinkIfExists(dir, VideoFile(FallbackTitle(VideoId(rq.url))))

DownloadCatchAnswer(rq) ==
    Respond(rq, 500, ErrorBody("Failed to download video: "))

\* server.js 522-529: the segments pushed so far and the source are removed
RECURSIVE UnlinkAll(_, _)
UnlinkAll(dir, names) ==
    IF names = <<>> THEN dir
    ELSE UnlinkAll(UnlinkIfExists(dir, names[1]), Tail(names))

\* a rollback that removes the segments and keeps the source
RollbackFilesKeepSource(rq, dir) ==
    UnlinkAll(dir, [k \in DOMAIN rq.segments |-> rq.segments[k].path])

RollbackFiles(rq, dir) ==
    UnlinkIfExists(
        UnlinkAll(dir, [k \in DOMAIN rq.segments |-> rq.segments[k].path]),
        rq.videoPath)

\* a success path that keeps the source
SuccessCleanupNone(rq, dir) == dir

\* server.js 537-540: the source is removed once every segment is cut
SuccessCleanup(rq, dir) == UnlinkIfExists(dir, rq.videoPath)

(***************************************************************************)
(* POST /split-video, RapidAPI variant (server.js 310-580).  One action    *)
(* per stretch of the handler between two awaits.                          *)
(***************************************************************************)
\* 311-348: input check, video id, the info request is sent
SplitVideoFrom(r, urls, lists) ==
    /\ alive
    /\ variant = "rapidapi"
    /\ req[r].pc = "idle"
    /\ \E url \in urls, raw \in lists :
         LET rq == [req[r] EXCEPT !.url = url, !.raw = raw]
         IN  IF Falsy(url) \/ ~raw.isArray
             THEN /\ req' = [req EXCEPT ![r] = Respond(rq, 400,
                        ErrorBody("Invalid input: URL and timestamps are required"))]
                  /\ UNCHANGED ops
             ELSE IF url.type # "string"
             \* youtubeUrl.split throws at 331 and again in the catch at
             \* 361; the outer catch at 572 answers
             THEN /\ req' = [req EXCEPT ![r] = Respond(rq, 500,
                        ErrorBody("An unexpected error occurred: "))]
                  /\ UNCHANGED ops
             ELSE IF VideoId(url) = <<>>
             \* 333 throws, the catch at 358 finds no id and answers at 366
             THEN /\ req' = [req EXCEPT ![r] = Respond(rq, 500,
                        ErrorBody("Failed to fetch video information: "))]
                  /\ UNCHANGED ops
             ELSE /\ req' = [req EXCEPT ![r] = [rq EXCEPT !.pc = "info"]]
                  /\ ops' = ops \cup {Op(r, "info", 0)}
    /\ UNCHANGED <<variant, fs, nraw, nout, dl, zip, alive, ntitles, nfiles>>

SplitVideo(r) == SplitVideoFrom(r, UrlPool, TimestampsPool)

\* the title of 350-365 from the outcome of the info request
InfoTitle(out, videoId) ==
    IF out.ok /\ out.data.status = "ok" /\ out.data.title # <<>>
    THEN Sanitize(out.data.title)
    ELSE FallbackTitle(videoId)

\* 348-431: the info request returns; title, timestamps, the link request
InfoDoneFrom(r, outcomes) ==
    /\ alive
    /\ Op(r, "info", 0) \in ops
    /\ \E out \in outcomes :
         LET rq     == [req[r] EXCEPT
                          !.videoTitle = InfoTitle(out, VideoId(req[r].url))]
             parsed == ParsedTimestamps(rq.raw.list)
         IN  IF rq.videoTitle = <<>>
             THEN /\ req' = [req EXCEPT ![r] = Respond(rq, 404,
                        ErrorBody("Video not found or is not accessible"))]
                  /\ ops' = ops \ {Op(r, "info", 0)}
             ELSE IF Len(parsed) = 0
             THEN /\ req' = [req EXCEPT ![r] = Respond(rq, 400,
                        ErrorBody("No valid timestamps provided"))]
                  /\ ops' = ops \ {Op(r, "info", 0)}
             ELSE /\ req' = [req EXCEPT ![r] =
                        [rq EXCEPT !.pc = "link",
                                   !.plan = CutPlan(rq.raw.list)]]
                  /\ ops' = (ops \ {Op(r, "info", 0)}) \cup {Op(r, "link", 0)}
    /\ UNCHANGED <<variant, fs, nraw, nout, dl, zip, alive, ntitles, nfiles>>

InfoDone(r) == InfoDoneFrom(r, ApiOutcomes)

\* the title of 440-442 from the data of the link request
DownloadTitle(data, videoId) ==
    IF data.title # <<>> THEN Sanitize(data.title) ELSE FallbackTitle(videoId)

\* 431-447: the link request returns; the write stream is created and the
\* request for the MP3 stream is sent
LinkDoneFrom(r, outcomes) ==
    /\ alive
    /\ Op(r, "link", 0) \in ops
    /\ \E out \in outcomes :
         IF ~out.ok \/ ~out.data.link
         THEN /\ req' = [req EXCEPT ![r] = DownloadCatchAnswer(req[r])]
              /\ fs' = DownloadCatchFiles(req[r], fs)
              /\ ops' = ops \ {Op(r, "link", 0)}
         ELSE LET title == DownloadTitle(out.data, VideoId(req[r].url))
              IN  /\ req' = [req EXCEPT ![r] =
                        [@ EXCEPT !.pc = "stream",
                                  !.dlTitle = title,
                                  !.videoPath = VideoFile(title)]]
                  /\ fs' = WriteFile(fs, VideoFile(title), 0, r)
                  /\ ops' = (ops \ {Op(r, "link", 0)}) \cup {Op(r, "stream", 0)}
    /\ UNCHANGED <<variant, nraw, nout, dl, zip, alive, ntitles, nfiles>>

LinkDone(r) == LinkDoneFrom(r, ApiOutcomes)

\* 447-455: the stream request returns; on success it is piped to the file
StreamDone(r) ==
    /\ alive
    /\ Op(r, "stream", 0) \in ops
    /\ \E ok \in BOOLEAN :
         IF ok
         THEN /\ req' = [req EXCEPT ![r].pc = "pipe"]
              /\ ops' = (ops \ {Op(r, "stream", 0)}) \cup {Op(r, "pipe", 0)}
              /\ UNCHANGED fs
         ELSE /\ req' = [req EXCEPT ![r] = DownloadCatchAnswer(req[r])]
              /\ fs' = DownloadCatchFiles(req[r], fs)
              /\ ops' = ops \ {Op(r, "stream", 0)}
    /\ UNCHANGED <<variant, nraw, nout, dl, zip, alive, ntitles, nfiles>>

\* the bytes the pipe has written reach the file this request created, if
\* that file is still the one at its path
Piped(dir, rq, r, bytes) ==
    IF Exists(dir, rq.videoPath) /\ dir[rq.videoPath].by = r
    THEN WriteFile(dir, rq.videoPath, bytes, r)
    ELSE dir

SourceVerifiedExistsOnly(dir, rq) == Exists(dir, rq.videoPath)

\* 470-477: the downloaded file is there and is not empty
SourceVerified(dir, rq) ==
    /\ Exists(dir, rq.videoPath)
    /\ dir[rq.videoPath].size # 0

\* 455-488: the pipe finishes or fails; the file is verified and the first
\* interval started
PipeDone(r) ==
    /\ alive
    /\ Op(r, "pipe", 0) \in ops
    /\ \E finished \in BOOLEAN, bytes \in {0, 1} :
         LET dir == Piped(fs, req[r], r, bytes)
         IN  /\ ops' = IF finished /\ SourceVerified(dir, req[r])
                       THEN (ops \ {Op(r, "pipe", 0)}) \cup
                            {Op(r, "ffmpeg", k) : k \in StartedAt(req[r], 0)}
                       ELSE ops \ {Op(r, "pipe", 0)}
             /\ IF finished /\ SourceVerified(dir, req[r])
                THEN /\ req' = [req EXCEPT ![r] = StartSegments(req[r], 0)]
                     /\ fs' = dir
                ELSE /\ req' = [req EXCEPT ![r] = DownloadCatchAnswer(req[r])]
                     /\ fs' = DownloadCatchFiles(req[r], dir)
    /\ UNCHANGED <<variant, nraw, nout, dl, zip, alive, ntitles, nfiles>>

\* the segment entry pushed at 515-518
SegmentEntry(rq, i) ==
    [path |-> SegmentFile(rq.dlTitle, i), name |-> SegmentFile(rq.dlTitle, i)]

\* the success body of 543-547
SuccessBody(segments) ==
    [error    |-> JBool(FALSE),
     success  |-> JBool(TRUE),
     segments |-> JArr([k \in DOMAIN segments |-> segments[k].name])]

\* 504-549: ffmpeg signals 'end' for the awaited interval; the segment is
\* pushed and either the next interval is started or the source is removed
\* and the success response sent
FfmpegEnd(r) ==
    /\ alive
    /\ Op(r, "ffmpeg", req[r].i) \in ops
    /\ LET i   == req[r].i
           dir == WriteFile(fs, SegmentFile(req[r].dlTitle, i), 1, r)
           rq  == [req[r] EXCEPT !.segments = Append(@, SegmentEntry(req[r], i))]
       IN  IF i + 1 < Len(rq.plan)
           THEN /\ req' = [req EXCEPT ![r] = StartSegments(rq, i + 1)]
                /\ ops' = (ops \ {Op(r, "ffmpeg", i)}) \cup
                          {Op(r, "ffmpeg", k) : k \in StartedAt(rq, i + 1)}
                /\ fs' = dir
           ELSE /\ req' = [req EXCEPT ![r] =
                      Respond(rq, 200, SuccessBody(rq.segments))]
                /\ ops' = ops \ {Op(r, "ffmpeg", i)}
                /\ fs' = SuccessCleanup(rq, dir)
    /\ UNCHANGED <<variant, nraw, nout, dl, zip, alive, ntitles, nfiles>>

\* 508-534: ffmpeg signals 'error' for the awaited interval, having left a
\* partial output file or none; the rollback of 519-534 runs
FfmpegError(r) ==
    /\ alive
    /\ Op(r, "ffmpeg", req[r].i) \in ops
    /\ \E partial \in BOOLEAN :
         LET i   == req[r].i
             dir == IF partial
                    THEN WriteFile(fs, SegmentFile(req[r].dlTitle, i), 0, r)
                    ELSE fs
         IN  /\ req' = [req EXCEPT ![r] = Respond(req[r], 500,
                    ErrorBody("Failed to process video segments: "))]
             /\ ops' = ops \ {Op(r, "ffmpeg", i)}
             /\ fs' = RollbackFiles(req[r], dir)
    /\ UNCHANGED <<variant, nraw, nout, dl, zip, alive, ntitles, nfiles>>

(***************************************************************************)
(* POST /split-video, youtube-dl variant (server.js 51-173).  timestamps   *)
(* is bound by the const destructuring of line 53; the assignment of line  *)
(* 63 evaluates its right-hand side and then throws a TypeError, which the *)
(* catch of 169-172 answers.  Lines 75-167 are never reached.              *)
(***************************************************************************)
\* a handler whose assignment of line 63 goes through and which answers
\* success
YtdlCatchNotReached(rq) ==
    Respond(rq, 200, [success |-> JBool(TRUE), segments |-> JArr(<<>>)])

\* 63 and 169-172: the assignment to the const timestamps throws a
\* TypeError and the catch answers 500 with its message
YtdlCatch(rq) ==
    Respond(rq, 500,
        [error |-> JStr("Failed to process video: Assignment to constant variable.")])

YtdlSplitVideoFrom(r, urls, lists) ==
    /\ alive
    /\ variant = "ytdl"
    /\ req[r].pc = "idle"
    /\ \E url \in urls, raw \in lists :
         LET rq == [req[r] EXCEPT !.url = url, !.raw = raw]
         IN  IF Falsy(url) \/ ~raw.isArray
             THEN req' = [req EXCEPT ![r] = Respond(rq, 400,
                      [error |-> JStr("Invalid input")])]
             ELSE req' = [req EXCEPT ![r] = YtdlCatch(rq)]
    /\ UNCHANGED <<variant, fs, ops, nraw, nout, dl, zip, alive, ntitles, nfiles>>

YtdlSplitVideo(r) == YtdlSplitVideoFrom(r, UrlPool, TimestampsPool)

(***************************************************************************)
(* GET /download/:filename (server.js 582-624 and 175-196)                 *)
(***************************************************************************)
\* the segments of a path left after normalization: '' and '.' are dropped
\* and '..' removes the segment before it, or stays when there is none
RECURSIVE NormalizeSegments(_, _)
NormalizeSegments(segs, acc) ==
    IF segs = <<>> THEN acc
    ELSE IF segs[1] = <<>> \/ segs[1] = <<".">>
         THEN NormalizeSegments(Tail(segs), acc)
    ELSE IF segs[1] = <<".", ".">> /\ acc # <<>> /\ acc[Len(acc)] # <<".", ".">>
         THEN NormalizeSegments(Tail(segs), SubSeq(acc, 1, Len(acc) - 1))
    ELSE NormalizeSegments(Tail(segs), Append(acc, segs[1]))

RECURSIVE JoinSlash(_)
JoinSlash(segs) ==
    IF segs = <<>> THEN <<>>
    ELSE IF Len(segs) = 1 THEN segs[1]
    ELSE segs[1] \o <<"/">> \o JoinSlash(Tail(segs))

\* path.join(downloadsDir, name), as a path relative to downloadsDir
PathJoin(name) == JoinSlash(NormalizeSegments(Split(name, <<"/">>), <<>>))

\* the path is that of a file inside downloadsDir
Inside(path) ==
    /\ path # <<>>
    /\ ~(Len(path) >= 2 /\ SubSeq(path, 1, 2) = <<".", ".">>
            /\ (Len(path) = 2 \/ path[3] = "/"))

\* a name no file of the directory has
MissingFile == <<"n", "o", "n", "e", ".", "m", "p", "3">>

\* the names a client asks for: the files of the directory, the names asked
\* for before, and a name that was never there
RequestableNames ==
    DOMAIN fs \cup {dl[e].name : e \in {x \in Downloads : dl[x].pc # "idle"}}
              \cup {MissingFile}

\* the 404 body of 590-593, and of 190 in the youtube-dl variant
NotFoundBody ==
    IF variant = "rapidapi" THEN ErrorBody("File not found")
    ELSE [error |-> JStr("File not found")]

\* the 500 body of 601-604, and of 184 in the youtube-dl variant
DownloadErrorBody ==
    IF variant = "rapidapi" THEN ErrorBody("Error downloading file: ")
    ELSE [error |-> JStr("Error downloading file: ")]

\* the file sent as an attachment by res.download
FileBody(name) == [attachment |-> JStr(name)]

\* 583-597 (176-181): the existence check; res.download starts the transfer
DownloadRequest(d) ==
    /\ alive
    /\ dl[d].pc = "idle"
    /\ \E name \in RequestableNames :
         IF ~Exists(fs, PathJoin(name))
         THEN dl' = [dl EXCEPT ![d] =
                  [pc |-> "done", name |-> name,
                   resps |-> <<[status |-> 404, body |-> NotFoundBody]>>]]
         ELSE dl' = [dl EXCEPT ![d] =
                  [pc |-> "sending", name |-> name, resps |-> <<>>]]
    /\ UNCHANGED <<variant, fs, req, ops, nraw, nout, zip, alive, ntitles, nfiles>>

\* the answer a finished transfer amounts to: the file, a 500 when the
\* transfer failed before the headers were sent, the broken-off file else
TransferAnswer(name, err, headersSent) ==
    IF ~err THEN [status |-> 200, body |-> FileBody(name)]
    ELSE IF ~headersSent THEN [status |-> 500, body |-> DownloadErrorBody]
    ELSE [status |-> 200, body |-> [aborted |-> JStr(name)]]

TryUnlinkKeeps(dir, name) == dir

\* 608-612: try { fs.unlinkSync(filePath) } catch { log }
TryUnlink(dir, name) == IF Exists(dir, name) THEN Unlink(dir, name) ELSE dir

\* 597-613: the callback of res.download in the RapidAPI variant
DownloadSent(d) ==
    /\ alive
    /\ variant = "rapidapi"
    /\ dl[d].pc = "sending"
    /\ \E err \in BOOLEAN, headersSent \in BOOLEAN :
         dl' = [dl EXCEPT ![d] =
                  [@ EXCEPT !.pc = "done",
                            !.resps = <<TransferAnswer(dl[d].name, err, headersSent)>>]]
    /\ fs' = TryUnlink(fs, PathJoin(dl[d].name))
    /\ UNCHANGED <<variant, req, ops, nraw, nout, zip, alive, ntitles, nfiles>>

\* the callback of the youtube-dl variant throws, outside any try block,
\* when it answers after the headers were sent (184) or unlinks a file that
\* is no longer there (187)
YtdlCallbackThrows(dir, name, err, headersSent) ==
    (err /\ headersSent) \/ ~Exists(dir, name)

\* 181-188: the callback of res.download in the youtube-dl variant; an
\* exception thrown in it is uncaught and ends the process
YtdlDownloadSent(d) ==
    /\ alive
    /\ variant = "ytdl"
    /\ dl[d].pc = "sending"
    /\ \E err \in BOOLEAN, headersSent \in BOOLEAN :
         /\ dl' = [dl EXCEPT ![d] =
                  [@ EXCEPT !.pc = "done",
                            !.resps = <<TransferAnswer(dl[d].name, err, headersSent)>>]]
         /\ alive' = ~YtdlCallbackThrows(fs, PathJoin(dl[d].name), err, headersSent)
         /\ fs' = IF err /\ headersSent THEN fs
                  ELSE TryUnlink(fs, PathJoin(dl[d].name))
    /\ UNCHANGED <<variant, req, ops, nraw, nout, zip, ntitles, nfiles>>

(***************************************************************************)
(* GET /download-zip (server.js 626-691 and 198-220)                       *)
(***************************************************************************)
\* String.prototype.trim for the blank ' '
RECURSIVE TrimLeft(_)
TrimLeft(s) == IF s # <<>> /\ s[1] = " " THEN TrimLeft(Tail(s)) ELSE s

RECURSIVE TrimRight(_)
TrimRight(s) ==
    IF s # <<>> /\ s[Len(s)] = " " THEN TrimRight(SubSeq(s, 1, Len(s) - 1)) ELSE s

Trim(s) == TrimRight(TrimLeft(s))

\* files.split(',').map(f => f.trim())
FileList(files) ==
    LET pieces == Split(files, <<",">>)
    IN  [k \in DOMAIN pieces |-> Trim(pieces[k])]

\* names.join(','), the query the page sends (index.html 180)
RECURSIVE JoinComma(_)
JoinComma(names) ==
    IF names = <<>> THEN <<>>
    ELSE IF Len(names) = 1 THEN names[1]
    ELSE names[1] \o <<",">> \o JoinComma(Tail(names))

\* the files parameters a client sends: none, the segments of a success
\* response, an existing file alone or with a name that does not exist
ZipParams ==
    {<<>>}
    \cup {JoinComma(req[r].resps[1].body.segments.v) :
            r \in {x \in Reqs : /\ req[x].pc = "done"
                                /\ req[x].resps[1].status = 200}}
    \cup {n : n \in DOMAIN fs}
    \cup {JoinComma(<<MissingFile, n>>) : n \in DOMAIN fs}

\* the files of the list that exist, in order (647-653)
Archived(dir, fileList) ==
    SelectSeq(fileList, LAMBDA n : Exists(dir, PathJoin(n)))

ZipErrorBody ==
    IF variant = "rapidapi" THEN ErrorBody("No files specified")
    ELSE [error |-> JStr("No files specified")]

\* 627-653 (199-214): the parameter check; the existing files are added to
\* the archive, which is piped to the response
ZipRequest(z) ==
    /\ alive
    /\ zip[z].pc = "idle"
    /\ \E files \in ZipParams :
         IF files = <<>>
         THEN zip' = [zip EXCEPT ![z] =
                  [@ EXCEPT !.pc = "done",
                            !.resps = <<[status |-> 400, body |-> ZipErrorBody]>>]]
         ELSE zip' = [zip EXCEPT ![z] =
                  [@ EXCEPT !.pc = "zipping",
                            !.files = files,
                            !.fileList = FileList(files),
                            !.added = Archived(fs, FileList(files))]]
    /\ UNCHANGED <<variant, fs, req, ops, nraw, nout, dl, alive, ntitles, nfiles>>

ZipCleanupNone(dir, fileList) == dir

\* 665-677: on 'finish' every listed file that exists is unlinked; the
\* youtube-dl variant (198-220) registers no such handler
ZipCleanup(dir, fileList) ==
    IF variant = "rapidapi"
    THEN UnlinkAll(dir, [k \in DOMAIN fileList |-> PathJoin(fileList[k])])
    ELSE dir

\* the response finishes, or it is broken off and 'finish' never fires
ZipDone(z) ==
    /\ alive
    /\ zip[z].pc = "zipping"
    /\ \E finished \in BOOLEAN :
         /\ zip' = [zip EXCEPT ![z] =
                  [@ EXCEPT !.pc = "done",
                            !.resps = <<[status |-> 200,
                                         body |-> [archive  |-> JArr(zip[z].added),
                                                   finished |-> JBool(finished)]]>>]]
         /\ fs' = IF finished THEN ZipCleanup(fs, zip[z].fileList) ELSE fs
    /\ UNCHANGED <<variant, req, ops, nraw, nout, dl, alive, ntitles, nfiles>>

\* the requests that have not arrived yet, the running process and the
\* harnesses at rest
Quiet ==
    /\ dl = [d \in Downloads |-> NewDownload]
    /\ zip = [z \in Zips |-> NewZip]
    /\ alive = TRUE
    /\ ntitles = <<>>
    /\ nfiles = <<>>

Init ==
    /\ Quiet
    /\ variant \in {"ytdl", "rapidapi"}
    /\ fs = <<>>
    /\ req = [r \in Reqs |-> NewRequest]
    /\ ops = {}
    /\ nraw = <<>>
    /\ nout = Idle

InitNorm ==
    /\ Quiet
    /\ variant = "rapidapi"
    /\ fs = <<>>
    /\ req = [r \in Reqs |-> NewRequest]
    /\ ops = {}
    /\ nraw \in RawLists
    /\ nout = Idle

Next ==
    \E r \in Reqs :
        \/ SplitVideo(r)
        \/ InfoDone(r)
        \/ LinkDone(r)
        \/ StreamDone(r)
        \/ PipeDone(r)
        \/ FfmpegEnd(r)
        \/ FfmpegError(r)
        \/ YtdlSplitVideo(r)

Spec == Init /\ [][Next]_vars

(***************************************************************************)
(* The server with its download endpoints: one /split-video request with   *)
(* a well-formed body, two /download requests and one /download-zip        *)
(* request, over a directory that may hold a file of an earlier run.       *)
(***************************************************************************)
LeftoverFile == <<"o", "l", "d", "_", "s", "e", "g", "m", "e", "n", "t", "_", "1",
                  ".", "m", "p", "3">>

InitialDirs == {<<>>, WriteFile(<<>>, LeftoverFile, 1, "earlier")}

DlUrls == {UrlString(<<"w", "?", "v", "=", "a", "B", "1">>)}

DlLists == {Timestamps(<<Str(<<"3", "0">>)>>)}

DlInfoOutcomes == {Rejected} \cup {Resolved(d) : d \in {x \in ApiData : x.title # <<>>}}

DlLinkOutcomes == {Rejected} \cup {Resolved(d) : d \in {x \in ApiData : x.link}}

InitDl ==
    /\ Quiet
    /\ variant \in {"ytdl", "rapidapi"}
    /\ fs \in InitialDirs
    /\ req = [r \in Reqs |-> NewRequest]
    /\ ops = {}
    /\ nraw = <<>>
    /\ nout = Idle

NextDl ==
    \/ \E r \in {"r1"} :
        \/ SplitVideoFrom(r, DlUrls, DlLists)
        \/ InfoDoneFrom(r, DlInfoOutcomes)
        \/ LinkDoneFrom(r, DlLinkOutcomes)
        \/ StreamDone(r)
        \/ PipeDone(r)
        \/ FfmpegEnd(r)
        \/ FfmpegError(r)
        \/ YtdlSplitVideoFrom(r, DlUrls, DlLists)
    \/ \E d \in Downloads :
        \/ DownloadRequest(d)
        \/ DownloadSent(d)
        \/ YtdlDownloadSent(d)
    \/ \E z \in Zips :
        \/ ZipRequest(z)
        \/ ZipDone(z)

SpecDl == InitDl /\ [][NextDl]_vars

(***************************************************************************)
(* Two /split-video requests run one after the other, the second arriving  *)
(* when the first has been answered, with two /download requests.          *)
(***************************************************************************)
SeqOutcomes == {Resolved(d) : d \in {x \in ApiData : x.title # <<>>}}

\* the requests that must have been answered before r arrives
Earlier(r) == IF r = "r2" THEN {"r1"} ELSE {}

SeqSplitVideo(r) ==
    /\ \A e \in Earlier(r) : req[e].pc = "done"
    /\ SplitVideoFrom(r, DlUrls, DlLists)

SeqYtdlSplitVideo(r) ==
    /\ \A e \in Earlier(r) : req[e].pc = "done"
    /\ YtdlSplitVideoFrom(r, DlUrls, DlLists)

NextSeq ==
    \/ \E r \in Reqs :
        \/ SeqSplitVideo(r)
        \/ InfoDoneFrom(r, SeqOutcomes)
        \/ LinkDoneFrom(r, SeqOutcomes)
        \/ StreamDone(r)
        \/ PipeDone(r)
        \/ FfmpegEnd(r)
        \/ FfmpegError(r)
        \/ SeqYtdlSplitVideo(r)
    \/ \E d \in Downloads :
        \/ DownloadRequest(d)
        \/ DownloadSent(d)
        \/ YtdlDownloadSent(d)

SpecSeq == InitDl /\ [][NextSeq]_vars

(***************************************************************************)
(* The file names of two requests, derived from their titles               *)
(* (server.js 440-443 and 483)                                             *)
(***************************************************************************)
MaxOrdinal == 2

TitlePool ==
    {<<"A">>, <<"a">>, <<"A", "!">>, <<"A", " ", "b">>, <<"A", "b", " ", "1">>,
     <<"B">>, <<"A", " ", "2">>,
     <<"A", " ", "s", "e", "g", "m", "e", "n", "t", " ", "1">>}

\* the source path and the segment paths a request with this slug uses
PathSet(slug) ==
    {VideoFile(slug)} \cup {SegmentFile(slug, i) : i \in 0..(MaxOrdinal - 1)}

InitNames ==
    /\ dl = [d \in Downloads |-> NewDownload]
    /\ zip = [z \in Zips |-> NewZip]
    /\ alive = TRUE
    /\ ntitles \in TitlePool \X TitlePool
    /\ nfiles = <<>>
    /\ variant = "rapidapi"
    /\ fs = <<>>
    /\ req = [r \in Reqs |-> NewRequest]
    /\ ops = {}
    /\ nraw = <<>>
    /\ nout = Idle

DeriveNames ==
    /\ nfiles = <<>>
    /\ ntitles # <<>>
    /\ nfiles' = [k \in DOMAIN ntitles |->
                    [slug  |-> Sanitize(ntitles[k]),
                     paths |-> PathSet(Sanitize(ntitles[k]))]]
    /\ UNCHANGED <<variant, fs, req, ops, nraw, nout, dl, zip, alive, ntitles>>

NextNames == DeriveNames

SpecNames == InitNames /\ [][NextNames]_vars

(***************************************************************************)
(* One /split-video request whose cleanup may throw: fs.unlinkSync raises  *)
(* on a file that exists (server.js 522-529, 538-540, 563-565).  Every     *)
(* external operation signals its end sooner or later.                     *)
(***************************************************************************)
\* the paths the rollback of 522-529 goes through, in order
CleanupList(rq) ==
    [k \in DOMAIN rq.segments |-> rq.segments[k].path] \o <<rq.videoPath>>

\* the positions of the list at which unlinkSync is called
ThrowPoints(dir, names) ==
    {k \in DOMAIN names :
        Exists(UnlinkAll(dir, SubSeq(names, 1, k - 1)), names[k])}

\* the catch of 551-569 after a cleanup that threw, with its response lost
\* when its own unlinkSync throws again
CleanupThrowsUnanswered(rq, again) ==
    IF again THEN [rq EXCEPT !.pc = "done"] ELSE DownloadCatchAnswer(rq)

\* the catch of 551-569 after a cleanup that threw; when its own unlinkSync
\* (563-565) throws again the outer catch of 572-579 answers
CleanupThrowsAnswer(rq, again) ==
    IF again
    THEN Respond(rq, 500, ErrorBody("An unexpected error occurred: "))
    ELSE DownloadCatchAnswer(rq)

\* the second unlinkSync can throw only when the file of 562 exists
CanThrowAgain(rq, dir) ==
    {FALSE} \cup
    {again \in {TRUE} : Exists(dir, VideoFile(FallbackTitle(VideoId(rq.url))))}

\* 519-529 and 551-579: ffmpeg signals 'error' and an unlinkSync of the
\* rollback throws; the files before it are gone, the response of 530 is
\* not sent and the exception reaches the catch of 551
RollbackThrows(r) ==
    /\ alive
    /\ Op(r, "ffmpeg", req[r].i) \in ops
    /\ \E partial \in BOOLEAN :
         LET i     == req[r].i
             dir   == IF partial
                      THEN WriteFile(fs, SegmentFile(req[r].dlTitle, i), 0, r)
                      ELSE fs
             names == CleanupList(req[r])
         IN  \E k \in ThrowPoints(dir, names) :
               LET left == UnlinkAll(dir, SubSeq(names, 1, k - 1))
               IN  \E again \in CanThrowAgain(req[r], left) :
                     /\ req' = [req EXCEPT ![r] = CleanupThrowsAnswer(req[r], again)]
                     /\ fs' = IF again THEN left
                              ELSE DownloadCatchFiles(req[r], left)
                     /\ ops' = ops \ {Op(r, "ffmpeg", i)}
    /\ UNCHANGED <<variant, nraw, nout, dl, zip, alive, ntitles, nfiles>>

\* 504-518, 537-540 and 551-579: the last interval ends and the unlinkSync
\* of the source throws; the success response is not sent
SuccessCleanupThrows(r) ==
    /\ alive
    /\ Op(r, "ffmpeg", req[r].i) \in ops
    /\ req[r].i + 1 = Len(req[r].plan)
    /\ LET i   == req[r].i
           dir == WriteFile(fs, SegmentFile(req[r].dlTitle, i), 1, r)
           rq  == [req[r] EXCEPT !.segments = Append(@, SegmentEntry(req[r], i))]
       IN  /\ Exists(dir, rq.videoPath)
           /\ \E again \in CanThrowAgain(rq, dir) :
                /\ req' = [req EXCEPT ![r] = CleanupThrowsAnswer(rq, again)]
                /\ fs' = IF again THEN dir ELSE DownloadCatchFiles(rq, dir)
           /\ ops' = ops \ {Op(r, "ffmpeg", i)}
    /\ UNCHANGED <<variant, nraw, nout, dl, zip, alive, ntitles, nfiles>>

\* an external operation of request r signals its end and the handler runs
\* on to its next await or to its response
Completes(r) ==
    \/ InfoDone(r)
    \/ LinkDone(r)
    \/ StreamDone(r)
    \/ PipeDone(r)
    \/ FfmpegEnd(r)
    \/ FfmpegError(r)
    \/ RollbackThrows(r)
    \/ SuccessCleanupThrows(r)

\* the timestamps of the request: none, an empty list, [0] and [30]
ThrowLists ==
    {NoTimestamps, Timestamps(<<>>), Timestamps(<<Number(0)>>),
     Timestamps(<<Number(30)>>)}

NextThrow ==
    \E r \in {"r1"} :
        \/ SplitVideoFrom(r, UrlPool, ThrowLists)
        \/ YtdlSplitVideoFrom(r, UrlPool, ThrowLists)
        \/ Completes(r)

SpecThrow == Init /\ [][NextThrow]_vars /\ WF_vars(Completes("r1"))

(***************************************************************************)
(* The download endpoints over a directory tree: a file of an earlier run  *)
(* in the downloads directory and the server's own file next to it.        *)
(***************************************************************************)
\* __dirname/server.js, as a path relative to __dirname/downloads
OutsideFile == <<".", ".", "/", "s", "e", "r", "v", "e", "r", ".", "j", "s">>

InitPath ==
    /\ Quiet
    /\ variant \in {"ytdl", "rapidapi"}
    /\ fs = WriteFile(WriteFile(<<>>, LeftoverFile, 1, "earlier"),
                      OutsideFile, 1, "app")
    /\ req = [r \in Reqs |-> NewRequest]
    /\ ops = {}
    /\ nraw = <<>>
    /\ nout = Idle

NextPath ==
    \/ \E d \in Downloads :
        \/ DownloadRequest(d)
        \/ DownloadSent(d)
        \/ YtdlDownloadSent(d)
    \/ \E z \in Zips :
        \/ ZipRequest(z)
        \/ ZipDone(z)

SpecPath == InitPath /\ [][NextPath]_vars

NextNorm == Normalize

SpecNorm == InitNorm /\ [][NextNorm]_vars

(***************************************************************************)
(* Claims about the normalizer (checked under SpecNorm)                    *)
(***************************************************************************)
\* some entry of the raw list parses to a number
SomeEntryParses(raw) == \E i \in DOMAIN raw : ~IsNaN(ParseTimestamp(raw[i]))

\* C1: for every raw timestamp list with at least one entry that parses to
\* a number, the cut plan has length >= 1, starts with 0 and is strictly
\* increasing.
C1_PlanStrictlyIncreasing ==
    (nout # Idle /\ SomeEntryParses(nraw)) =>
        /\ nout.state = "plan"
        /\ Len(nout.plan) >= 1
        /\ nout.plan[1] = 0
        /\ \A i \in 1..(Len(nout.plan) - 1) : nout.plan[i] < nout.plan[i + 1]

\* The reference normalizer of the claim, stated over the characters of an
\* entry: its fields are the runs between colons.
RefColons(s) == Cardinality({j \in DOMAIN s : s[j] = ":"})

RefField(s, k) ==
    LET idx == {j \in DOMAIN s :
                    /\ s[j] # ":"
                    /\ Cardinality({m \in 1..(j - 1) : s[m] = ":"}) = k - 1}
    IN  IF idx = {} THEN <<>>
        ELSE LET first == CHOOSE j \in idx : \A m \in idx : j <= m
             IN  [n \in 1..Cardinality(idx) |-> s[first + n - 1]]

RefFieldValue(s, k) == StringToNumber(RefField(s, k))

RefValue(ts) ==
    IF ts.type = "number" THEN Num(ts.num)
    ELSE IF RefColons(ts.str) = 1
         THEN IF IsNaN(RefFieldValue(ts.str, 1)) \/ IsNaN(RefFieldValue(ts.str, 2))
              THEN NaN
              ELSE Num(RefFieldValue(ts.str, 1)[1] * 60 + RefFieldValue(ts.str, 2)[1])
    ELSE IF RefColons(ts.str) = 2
         THEN IF \E k \in 1..3 : IsNaN(RefFieldValue(ts.str, k))
              THEN NaN
              ELSE Num(RefFieldValue(ts.str, 1)[1] * 3600
                       + RefFieldValue(ts.str, 2)[1] * 60
                       + RefFieldValue(ts.str, 3)[1])
    ELSE StringToNumber(ts.str)

\* the values of the entries that parse, as a bag: value -> multiplicity
RefCount(raw, v) == Cardinality({i \in DOMAIN raw : RefValue(raw[i]) = Num(v)})

RefValues(raw) == {RefValue(raw[i])[1] : i \in {j \in DOMAIN raw : ~IsNaN(RefValue(raw[j]))}}

Occurrences(p, v) == Cardinality({i \in DOMAIN p : p[i] = v})

\* p is the ascending arrangement of the values of raw, with 0 put in front
\* exactly when the smallest value is not 0
IsReferencePlan(p, raw) ==
    LET smallest == CHOOSE v \in RefValues(raw) : \A w \in RefValues(raw) : v <= w
        rest     == IF smallest # 0 THEN Tail(p) ELSE p
    IN  /\ Len(p) >= 1
        /\ smallest # 0 => p[1] = 0
        /\ \A i \in 1..(Len(rest) - 1) : rest[i] <= rest[i + 1]
        /\ \A v \in RefValues(raw) \cup Range(rest) :
               Occurrences(rest, v) = RefCount(raw, v)

\* C2: the normalizer equals the reference function on every bounded raw
\* list: mm:ss and hh:mm:ss strings are converted, other entries are parsed
\* as numbers, entries that do not parse are dropped without failing the
\* request, the rest is sorted ascending and 0 is prepended exactly when the
\* smallest value is not 0; the four examples of the claim come out as
\* stated.
C2_NormalizerMatchesReference ==
    nout # Idle =>
        /\ nout.state = "rejected" <=> RefValues(nraw) = {}
        /\ nout.state = "plan" => IsReferencePlan(nout.plan, nraw)
        /\ nraw = <<Str(<<"3", "0">>)>> => nout.plan = <<0, 30>>
        /\ nraw = <<Str(<<"1", ":", "3", "0">>), Str(<<"0", ":", "1", "0">>)>>
               => nout.plan = <<0, 10, 90>>
        /\ nraw = <<Str(<<"1", ":", "0", "0", ":", "0", "0">>)>>
               => nout.plan = <<0, 3600>>
        /\ nraw = <<Str(<<"a", "b", "c">>), Str(<<"3", "0">>)>>
               => nout.plan = <<0, 30>>
        /\ nraw = <<Str(<<"0", ":", "0", "0">>), Number(30)>>
               => nout.plan = <<0, 30>>

\* an unparsable entry was dropped and the plan built from the rest
C2_Witness ==
    /\ nraw = <<Str(<<"a", "b", "c">>), Str(<<"1", ":", "0", "0", ":", "0", "0">>)>>
    /\ nout # Idle
    /\ nout.state = "plan"
    /\ nout.plan = <<0, 3600>>

(***************************************************************************)
(* Claims about /split-video (checked under Spec)                          *)
(***************************************************************************)
Done(r) == req[r].pc = "done"

Received(r) == req[r].pc # "idle"

\* the response the request was answered with
Answer(r) == req[r].resps[Len(req[r].resps)]

HasMessage(body, m) == "message" \in DOMAIN body /\ body.message = JStr(m)

\* the files in the downloads directory last written by request r
FilesBy(r) == {n \in DOMAIN fs : fs[n].by = r}

OpsOf(r) == {op \in ops : op.r = r}

\* timestamps is an array and none of its entries parses to a number
NoValidTimestamps(r) ==
    req[r].raw.isArray /\ ~SomeEntryParses(req[r].raw.list)

\* request r has downloaded no source, run no ffmpeg and created no file
NothingFetchedOrCut(r) ==
    /\ req[r].videoPath = <<>>
    /\ req[r].calls = <<>>
    /\ FilesBy(r) = {}
    /\ \A op \in OpsOf(r) : op.kind = "info"

\* a video id can be taken from the URL of request r
UrlHasVideoId(r) == req[r].url.type = "string" /\ VideoId(req[r].url) # <<>>

\* C3 as stated, for the RapidAPI variant the claim is drawn from: when the
\* timestamps array is empty or none of its entries parses, the request is
\* answered 400 'No valid timestamps provided' and nothing is downloaded,
\* transcoded or created.
C3_Original ==
    \A r \in Reqs :
        (variant = "rapidapi" /\ Received(r) /\ NoValidTimestamps(r)) =>
            /\ NothingFetchedOrCut(r)
            /\ Done(r) =>
                   /\ Answer(r).status = 400
                   /\ HasMessage(Answer(r).body, "No valid timestamps provided")

\* C3 amended: when the timestamps array is empty or none of its entries
\* parses, nothing is downloaded, transcoded or created and the request is
\* answered with an error; the answer is 400 'No valid timestamps provided'
\* exactly when the RapidAPI variant has taken a video id from the URL
\* (a missing URL is answered 400 'Invalid input', a URL without a video id
\* 500, and the youtube-dl variant answers 500).
C3_NoValidTimestamps ==
    \A r \in Reqs :
        (Received(r) /\ NoValidTimestamps(r)) =>
            /\ NothingFetchedOrCut(r)
            /\ Done(r) =>
                   /\ Answer(r).status \in {400, 500}
                   /\ "error" \in DOMAIN Answer(r).body
                   /\ "success" \notin DOMAIN Answer(r).body
                   /\ (variant = "rapidapi" /\ UrlHasVideoId(r)) <=>
                          /\ Answer(r).status = 400
                          /\ HasMessage(Answer(r).body,
                                        "No valid timestamps provided")

\* a request with an unparsable list was answered 400 after the info step
C3_Witness ==
    \E r \in Reqs :
        /\ Done(r)
        /\ req[r].raw = Timestamps(<<Str(<<"a", "b", "c">>)>>)
        /\ req[r].videoTitle # <<>>
        /\ Answer(r).status = 400
        /\ HasMessage(Answer(r).body, "No valid timestamps provided")

\* the name <slug>_segment_<k>.mp3 for 1 <= k <= 9
SegmentName(slug, k) ==
    slug \o <<"_", "s", "e", "g", "m", "e", "n", "t", "_">> \o <<Digits[k + 1]>>
         \o <<".", "m", "p", "3">>

Succeeded(r) == Done(r) /\ Answer(r).status = 200

\* C4: the transcoder is invoked in index order, invocation i (0-based) with
\* input = the source path, start = plan[i], duration = plan[i+1] - plan[i]
\* for i < n-1 and none for i = n-1, output <slug>_segment_<i+1>.mp3; when
\* all n succeed there are exactly n invocations and the success response
\* lists the n segment names with ordinals 1..n in order.
C4_TranscoderInvocations ==
    \A r \in Reqs :
        LET n == Len(req[r].plan)
            c == req[r].calls
        IN  /\ Len(c) <= n
            /\ \A k \in DOMAIN c :
                   /\ c[k].input = req[r].videoPath
                   /\ c[k].start = req[r].plan[k]
                   /\ c[k].duration = IF k < n
                                      THEN <<req[r].plan[k + 1] - req[r].plan[k]>>
                                      ELSE <<>>
                   /\ c[k].output = SegmentName(req[r].dlTitle, k)
            /\ Succeeded(r) =>
                   /\ Len(c) = n
                   /\ Answer(r).body.segments.t = "array"
                   /\ Len(Answer(r).body.segments.v) = n
                   /\ \A k \in 1..n :
                          Answer(r).body.segments.v[k] = SegmentName(req[r].dlTitle, k)
            /\ (Succeeded(r) /\ req[r].plan = <<0, 10, 90>>) =>
                   /\ [k \in 1..3 |-> c[k].start] = <<0, 10, 90>>
                   /\ [k \in 1..3 |-> c[k].duration] = << <<10>>, <<80>>, <<>> >>

\* a request with the plan [0, 10, 90] has succeeded
C4_Witness ==
    \E r \in Reqs :
        /\ Succeeded(r)
        /\ req[r].plan = <<0, 10, 90>>
        /\ Len(req[r].calls) = 3

\* the step in which request r is answered after an ffmpeg failure
RollbackStep(r) ==
    /\ req[r].pc = "ffmpeg"
    /\ req'[r].pc = "done"
    /\ req'[r].resps[Len(req'[r].resps)].status # 200

\* C5: on the first interval whose transcoding fails the handler deletes
\* every segment file of the earlier intervals and the source file, invokes
\* no transcoding for a later interval and answers 500; a success response
\* always lists a segment for every interval of the plan.
C5_RollbackOnFailure ==
    [][\A r \in Reqs :
          /\ RollbackStep(r) =>
                /\ req'[r].resps[Len(req'[r].resps)].status = 500
                /\ Len(req'[r].resps) = 1
                /\ \A k \in DOMAIN req[r].segments :
                       req[r].segments[k].path \notin DOMAIN fs'
                /\ req[r].videoPath \notin DOMAIN fs'
                /\ req'[r].calls = req[r].calls
                /\ Len(req[r].calls) = Len(req[r].segments) + 1
                /\ {op \in ops' : op.r = r} = {}
          /\ req[r].pc = "done" =>
                /\ req'[r].calls = req[r].calls
                /\ {op \in ops' : op.r = r} = {}
          /\ (req'[r].pc = "done"
                /\ req'[r].resps[Len(req'[r].resps)].status = 200) =>
                Len(req'[r].resps[Len(req'[r].resps)].body.segments.v)
                    = Len(req'[r].plan)
      ]_vars

\* the second interval of a request failed after the first had been cut, and
\* neither the first segment nor the source is on disk
C5_Witness ==
    \E r \in Reqs :
        /\ Done(r)
        /\ Answer(r).status = 500
        /\ Len(req[r].segments) = 1
        /\ Len(req[r].calls) = 2
        /\ req[r].segments[1].path \notin DOMAIN fs
        /\ req[r].videoPath \notin DOMAIN fs

\* C6: after /split-video has answered with an error, the downloads
\* directory holds no file written by that request, neither the source nor
\* a segment nor the output of the interval that failed.
C6_NoFilesAfterError ==
    \A r \in Reqs :
        (Done(r) /\ Answer(r).status >= 400) => FilesBy(r) = {}

\* the step in which request r is answered with success
SuccessStep(r) ==
    /\ req[r].pc # "done"
    /\ req'[r].pc = "done"
    /\ req'[r].resps[Len(req'[r].resps)].status = 200

\* C7: when every interval's transcoding succeeds, the step that sends the
\* success response removes the source file and no other file, every step of
\* the request before it removes no segment of the request, and the response
\* lists the names of the produced segments in interval order.
C7_SuccessCleanup ==
    [][\A r \in Reqs :
          /\ SuccessStep(r) =>
                /\ req[r].videoPath \notin DOMAIN fs'
                /\ \A n \in DOMAIN fs : n # req[r].videoPath => n \in DOMAIN fs'
                /\ \A k \in DOMAIN req'[r].segments :
                       /\ req'[r].segments[k].path \in DOMAIN fs'
                          \/ (k < Len(req'[r].segments)
                                /\ req'[r].segments[k].path \notin DOMAIN fs)
                       /\ req'[r].resps[1].body.segments.v[k]
                              = req'[r].segments[k].name
                       /\ req'[r].segments[k].name = SegmentName(req[r].dlTitle, k)
                /\ Len(req'[r].resps[1].body.segments.v) = Len(req'[r].segments)
                /\ Len(req'[r].segments) = Len(req[r].plan)
          /\ (req'[r] # req[r] /\ req[r].pc = "ffmpeg" /\ req'[r].pc = "ffmpeg") =>
                \A n \in DOMAIN fs : n \in DOMAIN fs'
      ]_vars

\* a request with three intervals has succeeded: the source is gone and the
\* three segments are on disk
C7_Witness ==
    \E r \in Reqs :
        /\ Succeeded(r)
        /\ Len(req[r].segments) = 3
        /\ req[r].videoPath \notin DOMAIN fs
        /\ \A k \in 1..3 : req[r].segments[k].path \in DOMAIN fs

\* request r has at most one operation in flight, an ffmpeg run in flight is
\* the one for the interval after the segments cut so far, and no fetch is
\* in flight once a transcoding has been started
OneAtATime(r) ==
    /\ Cardinality(OpsOf(r)) <= 1
    /\ Len(req[r].calls) <= Len(req[r].segments) + 1
    /\ \A op \in OpsOf(r) :
           /\ req[r].calls # <<>> => op.kind = "ffmpeg"
           /\ op.kind = "ffmpeg" =>
                  /\ op.seg = Len(req[r].segments)
                  /\ Len(req[r].calls) = op.seg + 1
                  /\ Exists(fs, req[r].videoPath) =>
                         fs[req[r].videoPath].by # r
                         \/ fs[req[r].videoPath].size # 0

\* C8: within one request the steps run one after another: an operation is
\* started only in the step in which the previous one signals completion
\* (info, link, stream, pipe, then the intervals in order), the first
\* transcoding starts when the download has finished, interval i+1 starts
\* when interval i has signalled its end, and a request never has more than
\* one operation in flight.
C8_StrictlySequential ==
    [][\A r \in Reqs :
          /\ OneAtATime(r)'
          /\ \A op \in {o \in ops' : o.r = r} \ ops :
                 \/ op.kind = "info" /\ OpsOf(r) = {}
                 \/ \E prev \in OpsOf(r) \ ops' :
                        \/ prev.kind = "info"   /\ op.kind = "link"
                        \/ prev.kind = "link"   /\ op.kind = "stream"
                        \/ prev.kind = "stream" /\ op.kind = "pipe"
                        \/ prev.kind = "pipe"   /\ op = Op(r, "ffmpeg", 0)
                        \/ prev.kind = "ffmpeg" /\ op = Op(r, "ffmpeg", prev.seg + 1)
          /\ Len(req'[r].calls) > Len(req[r].calls) =>
                 /\ Len(req'[r].calls) = Len(req[r].calls) + 1
                 /\ Op(r, "ffmpeg", Len(req[r].calls)) \in ops' \ ops
      ]_vars

\* the second interval of a request is being transcoded, after the first
\* was cut, with nothing else of the request in flight
C8_Witness ==
    \E r \in Reqs :
        /\ OpsOf(r) = {Op(r, "ffmpeg", 1)}
        /\ Len(req[r].segments) = 1
        /\ Len(req[r].calls) = 2

\* the request has a caller-input problem: URL or timestamps missing, no
\* video id in the URL, or no valid timestamp
InputProblem(r) ==
    \/ Falsy(req[r].url)
    \/ ~req[r].raw.isArray
    \/ ~UrlHasVideoId(r)
    \/ NoValidTimestamps(r)

\* C9: in the RapidAPI variant the claim is drawn from, every caller-input
\* problem is answered with a status in the 400 range, and every other
\* failure with 500.
C9_StatusByFailureKind ==
    \A r \in Reqs :
        (variant = "rapidapi" /\ Done(r)) =>
            /\ InputProblem(r) => Answer(r).status \in 400..499
            /\ (~InputProblem(r) /\ Answer(r).status # 200) =>
                   Answer(r).status = 500

IsSuccessObject(body) ==
    /\ {"success", "segments"} \subseteq DOMAIN body
    /\ body.success.t = "boolean"
    /\ body.success.v = TRUE
    /\ body.segments.t = "array"

IsErrorObject(body) ==
    /\ {"error", "message"} \subseteq DOMAIN body
    /\ body.error.t = "boolean"
    /\ body.error.v = TRUE
    /\ body.message.t = "string"

\* C10: every response of /split-video is either a success object (success
\* = true, segments = a list of names) or an error object (error = true and
\* a string message), never both and never neither, in every variant.
C10_ResponseShape ==
    \A r \in Reqs :
        \A k \in DOMAIN req[r].resps :
            IsSuccessObject(req[r].resps[k].body)
                # IsErrorObject(req[r].resps[k].body)

(***************************************************************************)
(* GET /download/:filename                                                 *)
(***************************************************************************)
\* download d has been answered with the whole file
Served(d) ==
    /\ dl[d].pc = "done"
    /\ dl[d].resps[1].status = 200
    /\ "attachment" \in DOMAIN dl[d].resps[1].body

\* download d arrives in this step
Arrives(d) == dl[d].pc = "idle" /\ dl'[d].pc # "idle"

\* download d is answered 404 in the step it arrives in
NotFoundAtOnce(d) ==
    /\ dl'[d].pc = "done"
    /\ dl'[d].resps[1].status = 404

\* a request for a name that is not in the directory is answered 404, and
\* a file that was served is no longer in the directory after its transfer
MissingIs404ServedIsDeleted ==
    \A d \in Downloads :
        /\ (Arrives(d) /\ ~Exists(fs, dl'[d].name)) => NotFoundAtOnce(d)
        /\ (dl[d].pc = "sending" /\ Served(d)') => ~Exists(fs', dl[d].name)

\* name is a segment that a success response of /split-video lists
Delivered(name) ==
    \E r \in Reqs :
        /\ Done(r)
        /\ Answer(r).status = 200
        /\ name \in Range(Answer(r).body.segments.v)

\* the claim as stated, for the segments the service delivers: also, once a
\* download of a name has completed, every /download request for that name
\* that arrives later is answered 404
C11_Original ==
    [][ /\ MissingIs404ServedIsDeleted
        /\ \A d, e \in Downloads :
              (Served(e) /\ Delivered(dl[e].name)
                         /\ Arrives(d) /\ dl'[d].name = dl[e].name)
                  => NotFoundAtOnce(d)
      ]_vars

\* C11: GET /download/:filename answers 404 when the file is not in the
\* downloads directory; a file that exists is served and then deleted, and
\* once a download of a name has completed the name stays absent, so that a
\* later /download request for it answers 404, until a /split-video request
\* writes a file of that name again.
C11_DownloadThenGone ==
    [][ /\ MissingIs404ServedIsDeleted
        /\ \A e \in Downloads :
              (Served(e) /\ ~Exists(fs, dl[e].name) /\ Exists(fs', dl[e].name))
                  => \E r \in Reqs : /\ req'[r] # req[r]
                                     /\ fs'[dl[e].name].by = r
        /\ \A d, e \in Downloads :
              (Served(e) /\ Arrives(d) /\ dl'[d].name = dl[e].name
                         /\ ~Exists(fs, dl[e].name))
                  => NotFoundAtOnce(d)
      ]_vars

\* a file was served to one download, and a later download of the same
\* name was answered 404
C11_Witness ==
    \E d, e \in Downloads :
        /\ d # e
        /\ Served(e)
        /\ dl[d].pc = "done"
        /\ dl[d].name = dl[e].name
        /\ dl[d].resps[1].status = 404

(***************************************************************************)
(* GET /download-zip                                                       *)
(***************************************************************************)
\* the response of zip request z completes in this step
ZipCompletes(z) ==
    /\ zip[z].pc = "zipping"
    /\ zip'[z].pc = "done"
    /\ zip'[z].resps[1].body.finished.v

\* C12: in each variant /download-zip answers 400 without a files parameter,
\* puts every listed file that exists into the archive and skips the missing
\* names, and when its response has completed no listed file is left in the
\* scratch directory.
C12_ZipDeletesListedFiles ==
    [][ \A z \in Zips :
          /\ (zip[z].pc = "idle" /\ zip'[z].pc = "done") =>
                 /\ zip'[z].files = <<>>
                 /\ zip'[z].resps[1].status = 400
          /\ (zip[z].pc = "idle" /\ zip'[z].pc = "zipping") =>
                 Range(zip'[z].added) =
                     {n \in Range(zip'[z].fileList) : Exists(fs, n)}
          /\ ZipCompletes(z) =>
                 \A n \in Range(zip[z].fileList) : ~Exists(fs', n)
      ]_vars

\* C13: no request ends the server process: whatever is raised while
\* /split-video, /download/:filename or /download-zip is handled, in the
\* completion callbacks and under two downloads of the same file too, is
\* caught within the request and the process keeps serving.
C13_ProcessKeepsServing == alive

(***************************************************************************)
(* Files of concurrent requests                                            *)
(***************************************************************************)
\* request r is cutting: its download has completed and its own cleanup
\* has not run, and the source it wrote is at its path
HoldsSource(r) ==
    /\ req[r].pc = "ffmpeg"
    /\ Exists(fs, req[r].videoPath)
    /\ fs[req[r].videoPath].by = r

\* C14: the source media file of an in-flight /split-video request is owned
\* by that request alone: from the completion of its download until the
\* request's own cleanup, no step of another request (a /split-video, a
\* /download/:filename or a /download-zip) deletes or overwrites it.
C14_SourceOwnedExclusively ==
    [][ \A r \in Reqs :
          (HoldsSource(r) /\ req'[r] = req[r]) =>
              /\ Exists(fs', req[r].videoPath)
              /\ fs'[req[r].videoPath] = fs[req[r].videoPath]
      ]_vars

\* C15: two /split-video requests whose derived slugs differ never create,
\* overwrite or delete a file at the same path: the set of the source path
\* <slug>.mp3 and the segment paths <slug>_segment_<k>.mp3, k >= 1, of the
\* one is disjoint from that of the other.
C15_DisjointPathSets ==
    nfiles # <<>> =>
        (nfiles[1].slug # nfiles[2].slug =>
            nfiles[1].paths \cap nfiles[2].paths = {})

\* C16: once /split-video has answered success, every segment file named in
\* the response stays on disk until a /download or /download-zip request has
\* served it: no step of another /split-video request, one with the same
\* derived title that fails and rolls back included, removes it.
C16_SegmentsStayUntilServed ==
    [][ \A r \in Reqs :
          Succeeded(r) =>
              \A name \in Range(Answer(r).body.segments.v) :
                  (Exists(fs, name) /\ dl' = dl /\ zip' = zip)
                      => Exists(fs', name)
      ]_vars

(***************************************************************************)
(* The life of a request's files                                           *)
(***************************************************************************)
\* the segment names the success response of r lists
Returned(r) == Range(Answer(r).body.segments.v)

\* name has been fetched through /download/:filename: the transfer ran and
\* its callback was called
Fetched(name) ==
    \E d \in Downloads :
        /\ dl[d].pc = "done"
        /\ dl[d].name = name
        /\ dl[d].resps[1].status # 404

\* one /download-zip request listing every name has completed its response
ZippedAll(names) ==
    \E z \in Zips :
        /\ zip[z].pc = "done"
        /\ names \subseteq Range(zip[z].fileList)
        /\ zip[z].resps[1].status = 200
        /\ zip[z].resps[1].body.finished.v

InFlight(r) == req[r].pc \notin {"idle", "done"}

\* C17: after a successful /split-video request, once each returned segment
\* has been fetched through /download/:filename, or all of them through one
\* /download-zip request whose response completed, the scratch directory
\* holds no file created by the request; while the request is in flight it
\* holds no file of the request but its one source file and at most one
\* segment file for each element of the cut plan.
C17_NothingRetained ==
    \A r \in Reqs :
        /\ (Succeeded(r) /\ ((\A n \in Returned(r) : Fetched(n))
                               \/ ZippedAll(Returned(r))))
               => FilesBy(r) = {}
        /\ InFlight(r) =>
               /\ FilesBy(r) \subseteq
                     {req[r].videoPath} \cup
                     {SegmentFile(req[r].dlTitle, i) :
                         i \in 0..(Len(req[r].plan) - 1)}
               /\ Cardinality(FilesBy(r) \ {req[r].videoPath})
                     <= Len(req[r].plan)

\* a request succeeded with two segments and both were fetched one by one
C17_Witness ==
    \E r \in Reqs :
        /\ Succeeded(r)
        /\ Cardinality(Returned(r)) = 2
        /\ \A n \in Returned(r) : Fetched(n)
        /\ FilesBy(r) = {}

(***************************************************************************)
(* The values of the cut plan                                              *)
(***************************************************************************)
\* C18: every element of the cut plan used for extraction is a non-negative
\* whole number of seconds: the entries that do not parse to a number are
\* discarded, and no negative offset is handed on as the start of an
\* interval or as part of its duration.
C18_PlanNonNegative ==
    nout # Idle =>
        /\ nout.state = "plan" <=> SomeEntryParses(nraw)
        /\ nout.state = "plan" =>
               \A i \in DOMAIN nout.plan : nout.plan[i] \in Nat

(***************************************************************************)
(* The characters of the slug                                              *)
(***************************************************************************)
SlugChars == Range(LowerCase) \cup Range(Digits) \cup {"_"}

\* C19: the slug used in every source and segment file name consists only
\* of the characters a-z, 0-9 and '_', on every path that derives one, the
\* paths that fall back to the video id of the URL included.
C19_SlugCharacters ==
    \A r \in Reqs :
        /\ Range(req[r].videoTitle) \subseteq SlugChars
        /\ Range(req[r].dlTitle) \subseteq SlugChars

(***************************************************************************)
(* The source file is verified before the first interval                   *)
(***************************************************************************)
\* the download of request r ends in this step
PipeEnds(r) == Op(r, "pipe", 0) \in ops /\ Op(r, "pipe", 0) \notin ops'

\* C20: no transcoding operation is invoked unless, after the download has
\* finished, the source media file exists at the source path with non-zero
\* size; when the file is missing or empty the request answers with an
\* error and no transcoding operation has been invoked.
C20_SourceVerifiedBeforeCutting ==
    [][ \A r \in Reqs :
          /\ (req[r].calls = <<>> /\ req'[r].calls # <<>>) =>
                 /\ PipeEnds(r)
                 /\ Exists(fs', req[r].videoPath)
                 /\ fs'[req[r].videoPath].size # 0
          /\ (PipeEnds(r) /\ ~SourceVerified(fs', req[r])) =>
                 /\ req'[r].pc = "done"
                 /\ req'[r].resps[Len(req'[r].resps)].status = 500
                 /\ req'[r].calls = <<>>
                 /\ {op \in ops' : op.r = r} = {}
      ]_vars

\* the first interval of a request is being cut from a source that is
\* there and not empty
C20_Witness ==
    \E r \in Reqs :
        /\ req[r].pc = "ffmpeg"
        /\ Len(req[r].calls) = 1
        /\ SourceVerified(fs, req[r])

(***************************************************************************)
(* A transfer that fails                                                   *)
(***************************************************************************)
\* the transfer of download d ends in this step
TransferEnds(d) == dl[d].pc = "sending" /\ dl'[d].pc = "done"

\* C21: /download/:filename deletes a segment file only after it has served
\* it: when the transfer fails (the callback receives an error) the file is
\* still on disk afterwards, and can be requested again.
C21_DeletedOnlyAfterServed ==
    [][ \A d \in Downloads :
          (TransferEnds(d) /\ Delivered(dl[d].name)
                           /\ Exists(fs, dl[d].name) /\ ~Served(d)')
              => Exists(fs', dl[d].name)
      ]_vars

(***************************************************************************)
(* Running /split-video again                                              *)
(***************************************************************************)
\* the two requests had the same title and the same raw timestamps
SameInputs(r, q) ==
    /\ req[r].dlTitle = req[q].dlTitle
    /\ req[r].raw = req[q].raw

\* the names of a plan of n intervals under a slug, in order
NamesOf(slug, n) == [k \in 1..n |-> SegmentName(slug, k)]

\* request q pushes a segment in this step
PushesSegment(q) == Len(req'[q].segments) > Len(req[q].segments)

\* C22: two /split-video runs, one after the other, with the same source
\* title and the same raw timestamps answer the same ordered list of segment
\* names, the names being <slug>_segment_<k>.mp3 for k = 1..n, and the
\* second run writes its segment files at the paths the first run listed.
C22_SameNamesOnRerun ==
    [][ /\ (Succeeded("r1") /\ Succeeded("r2") /\ SameInputs("r1", "r2")) =>
               /\ Answer("r1").body.segments.v = Answer("r2").body.segments.v
               /\ Answer("r2").body.segments.v =
                      NamesOf(req["r2"].dlTitle, Len(req["r2"].plan))
        /\ (Succeeded("r1") /\ SameInputs("r1", "r2")' /\ PushesSegment("r2")) =>
               LET n == req'["r2"].segments[Len(req'["r2"].segments)].name
               IN  /\ n \in Returned("r1")
                   /\ Exists(fs', n)
                   /\ fs'[n].by = "r2"
      ]_vars

\* both runs succeeded with the same list of two names, and the files at
\* those paths are the ones the second run wrote
C22_Witness ==
    /\ Succeeded("r1")
    /\ Succeeded("r2")
    /\ SameInputs("r1", "r2")
    /\ Answer("r1").body.segments.v = Answer("r2").body.segments.v
    /\ Len(Answer("r2").body.segments.v) = 2
    /\ \A n \in Returned("r1") : Exists(fs, n) /\ fs[n].by = "r2"

(***************************************************************************)
(* One response for every request                                          *)
(***************************************************************************)
\* the request has a response, and has one exactly when its handler is done
AtMostOneResponse(r) ==
    /\ Len(req[r].resps) <= 1
    /\ Done(r) <=> Len(req[r].resps) = 1

\* C23: every /split-video request receives exactly one response, never
\* two and, the external operations signalling their end sooner or later,
\* never none, on every path of the handler, those on which a cleanup step
\* throws inside the rollback included.
C23_ExactlyOneResponse ==
    /\ [](\A r \in Reqs : AtMostOneResponse(r))
    /\ \A r \in Reqs : (Received(r) ~> Done(r))

\* a request was answered by the catch of the download block after its
\* transcoding had started: a cleanup step threw
C23_Witness ==
    \E r \in Reqs :
        /\ Done(r)
        /\ Len(req[r].resps) = 1
        /\ req[r].calls # <<>>
        /\ Answer(r).status = 500
        /\ \/ HasMessage(Answer(r).body, "Failed to download video: ")
           \/ HasMessage(Answer(r).body, "An unexpected error occurred: ")

(***************************************************************************)
(* The files the download endpoints reach                                  *)
(***************************************************************************)
\* C24: /download/:filename and /download-zip read and delete only files
\* inside the downloads directory, whatever file name the caller supplies,
\* names with '..' segments included: no file outside it is served, put
\* into an archive or unlinked.
C24_OnlyInsideScratch ==
    /\ \A d \in Downloads :
           dl[d].pc = "sending" => Inside(PathJoin(dl[d].name))
    /\ \A z \in Zips :
           \A n \in Range(zip[z].added) : Inside(PathJoin(n))
    /\ \A p \in {OutsideFile} : Exists(fs, p)

(***************************************************************************)
(* The youtube-dl variant of /split-video                                  *)
(***************************************************************************)
\* request r passes the input check of line 55
PassesInputCheck(r) == ~Falsy(req[r].url) /\ req[r].raw.isArray

\* C25: in the youtube-dl variant a /split-video request that passes the
\* input check (URL present, timestamps an array) is answered 500 with the
\* message of the failed assignment to the const timestamps, whatever the
\* timestamps are, and has fetched nothing, transcoded nothing and written
\* no file.
C25_YtdlAlwaysFails ==
    \A r \in Reqs :
        (variant = "ytdl" /\ Received(r) /\ PassesInputCheck(r)) =>
            /\ Done(r)
            /\ Len(req[r].resps) = 1
            /\ Answer(r).status = 500
            /\ Answer(r).body =
                   [error |-> JStr("Failed to process video: Assignment to constant variable.")]
            /\ NothingFetchedOrCut(r)
            /\ OpsOf(r) = {}

\* a youtube-dl request with a URL and a timestamp that parses was answered
C25_Witness ==
    \E r \in Reqs :
        /\ variant = "ytdl"
        /\ Done(r)
        /\ PassesInputCheck(r)
        /\ SomeEntryParses(req[r].raw.list)
        /\ Answer(r).status = 500

(***************************************************************************)
(* The 404 branch of the RapidAPI variant                                  *)
(***************************************************************************)
\* the handler of request r is past its info step and not yet done
PastInfo(r) == req[r].pc \in {"link", "stream", "pipe", "ffmpeg"}

\* C26: the RapidAPI variant of /split-video never answers 404: after the
\* info step the slug is set, from the title or from the video id, or the
\* request has been answered 500 already, so the 'Video not found or is not
\* accessible' branch is not reached, and a source that is not available
\* is reported with status 500.
C26_Never404 ==
    \A r \in Reqs :
        variant = "rapidapi" =>
            /\ \A k \in DOMAIN req[r].resps : req[r].resps[k].status # 404
            /\ PastInfo(r) => req[r].videoTitle # <<>>
            /\ (Done(r) /\ req[r].videoTitle = <<>>) =>
                   Answer(r).status \in {400, 500}
            /\ (Done(r) /\ req[r].videoTitle # <<>> /\ req[r].plan # <<>>
                        /\ req[r].calls = <<>>) =>
                   Answer(r).status = 500

\* the info request failed, the slug came from the video id, and the
\* source that could not be fetched was reported with 500
C26_Witness ==
    \E r \in Reqs :
        /\ variant = "rapidapi"
        /\ Done(r)
        /\ req[r].videoTitle = FallbackTitle(VideoId(req[r].url))
        /\ req[r].plan # <<>>
        /\ req[r].calls = <<>>
        /\ Answer(r).status = 500

====
